---- MODULE Spec2Model ----
(***************************************************************************)
(* The store configuration of iroh-store (src/iroh-store/src/config.rs):   *)
(* the Config value, its constructors, the derivation of the server RPC    *)
(* address and its participation, as a Source, in the layered              *)
(* configuration builder.                                                  *)
(***************************************************************************)
EXTENDS Naturals, Sequences, FiniteSets, TLC

VARIABLES heap, cfgRef, boxRef, made, derived, collected, snapshot, ret

vars == <<heap, cfgRef, boxRef, made, derived, collected, snapshot, ret>>

(***************************************************************************)
(* Bounds of the model.                                                    *)
(***************************************************************************)
\* Longest path, in bytes, that the model constructs.
MaxPathLen == 1

(***************************************************************************)
(* Option and Result.                                                      *)
(***************************************************************************)
None == [tag |-> "None"]

Some(v) == [tag |-> "Some", val |-> v]

Ok(v) == [tag |-> "Ok", val |-> v]

Err(m) == [tag |-> "Err", msg |-> m]

\* A variable that holds no value yet.
Unset == [tag |-> "Unset"]

\* A heap cell that holds no object.
Free == [tag |-> "Free"]

(***************************************************************************)
(* Paths.  A PathBuf is a sequence of bytes; "t" is an ASCII byte and "FF" *)
(* the byte 0xFF, which occurs in no UTF-8 text.                           *)
(***************************************************************************)
Bytes == {"t", "FF"}

PathBufs == UNION {[1..n -> Bytes] : n \in 0..MaxPathLen}

\* Path::to_str: the path as text when its bytes are valid UTF-8.
to_str(p) ==
    IF \A i \in 1..Len(p) : p[i] # "FF" THEN Some(p) ELSE None

(***************************************************************************)
(* RPC addresses: the closed set of variants of Addr.                      *)
(***************************************************************************)
GrpcHttp2(a) == [tag |-> "GrpcHttp2", payload |-> a]

GrpcUds(p) == [tag |-> "GrpcUds", payload |-> p]

Mem(c) == [tag |-> "Mem", payload |-> c]

SocketAddrs == {"0.0.0.0:4402", "127.0.0.1:4401"}

UdsPaths == {"/tmp/store.sock"}

MemChannels == {"chan"}

StoreClientAddrs ==
    {GrpcHttp2(a) : a \in SocketAddrs} \cup {GrpcUds(p) : p \in UdsPaths}
        \cup {Mem(c) : c \in MemChannels}

\* The text form of an address.
AddrToString(a) ==
    CASE a.tag = "GrpcHttp2" -> <<"grpc://", a.payload>>
      [] a.tag = "GrpcUds" -> <<"grpc://", a.payload>>
      [] a.tag = "Mem" -> <<"mem">>

\* str::parse for an address: a socket address first, a socket path otherwise.
AddrFromStr(s) ==
    IF s = <<"mem">>
    THEN Err("memory addresses can not be serialized or deserialized")
    ELSE IF Len(s) = 2 /\ s[1] = "grpc://"
         THEN IF s[2] \in SocketAddrs
              THEN Ok(GrpcHttp2(s[2]))
              ELSE Ok(GrpcUds(s[2]))
         ELSE Err("invalid addr")

(***************************************************************************)
(* The nested configuration blocks.                                        *)
(***************************************************************************)
ChannelCounts == {1}

RpcClientConfigs ==
    [store_addr : {None} \cup {Some(a) : a \in StoreClientAddrs},
     channels : {None} \cup {Some(n) : n \in ChannelCounts}]

\* RpcClientConfig::default()
RpcClientDefault == [store_addr |-> None, channels |-> None]

MetricsConfigs == [tracing : BOOLEAN]

\* MetricsConfig::default()
MetricsDefault == [tracing |-> FALSE]

Configs == [path : PathBufs, rpc_client : RpcClientConfigs, metrics : MetricsConfigs]

(***************************************************************************)
(* Values of the configuration map: a string or a nested table.            *)
(***************************************************************************)
Str(t) == [kind |-> "String", str |-> t, tbl |-> <<>>]

Tbl(m) == [kind |-> "Table", str |-> <<>>, tbl |-> m]

EmptyMap == <<>>

\* map.insert(key, Value::new(None, value))
insert_into_config_map(map, key, value) ==
    [k \in DOMAIN map \cup {key} |-> IF k = key THEN value ELSE map[k]]

\* RpcClientConfig as a Source: only the fields that are set are inserted.
RpcClientCollect(rc) ==
    LET m1 == IF rc.store_addr = None
              THEN EmptyMap
              ELSE insert_into_config_map(EmptyMap, "store_addr",
                                          Str(AddrToString(rc.store_addr.val)))
        m2 == IF rc.channels = None
              THEN m1
              ELSE insert_into_config_map(m1, "channels",
                                          Str(<<ToString(rc.channels.val)>>))
    IN  Ok(m2)

\* MetricsConfig as a Source.
MetricsCollect(mc) ==
    Ok(insert_into_config_map(EmptyMap, "tracing",
                              Str(<<IF mc.tracing THEN "true" ELSE "false">>)))

(***************************************************************************)
(* Config: construction.                                                   *)
(***************************************************************************)
\* Faulty variant: the address is validated at construction, and an
\* in-process address is left out.
new_with_rpc_Validating(path, client_addr) ==
    [path |-> path,
     rpc_client |-> [RpcClientDefault EXCEPT
                        !.store_addr = IF client_addr.tag = "Mem"
                                       THEN None
                                       ELSE Some(client_addr)],
     metrics |-> MetricsDefault]

\* Config::new_with_rpc
new_with_rpc(path, client_addr) ==
    [path |-> path,
     rpc_client |-> [RpcClientDefault EXCEPT !.store_addr = Some(client_addr)],
     metrics |-> MetricsDefault]

\* Config::new_grpc; unwrap() of a failed parse panics, and no Config is made.
new_grpc(path) ==
    LET addr == AddrFromStr(<<"grpc://", "0.0.0.0:4402">>)
    IN  IF addr.tag = "Ok" THEN Some(new_with_rpc(path, addr.val)) ELSE None

(***************************************************************************)
(* Config: derivation of the server address.                               *)
(***************************************************************************)
\* Faulty variant: an in-process address is skipped instead of refused.
server_rpc_addr_MemAsNone(self) ==
    IF self.rpc_client.store_addr = None
    THEN Ok(None)
    ELSE LET addr == self.rpc_client.store_addr.val
         IN  CASE addr.tag = "GrpcHttp2" -> Ok(Some(GrpcHttp2(addr.payload)))
               [] addr.tag = "GrpcUds" -> Ok(Some(GrpcUds(addr.payload)))
               [] addr.tag = "Mem" -> Ok(None)

\* Faulty variant: a host/port address is rebound to the well-known one.
server_rpc_addr_Rebind(self) ==
    IF self.rpc_client.store_addr = None
    THEN Ok(None)
    ELSE LET addr == self.rpc_client.store_addr.val
         IN  CASE addr.tag = "GrpcHttp2" -> Ok(Some(GrpcHttp2("0.0.0.0:4402")))
               [] addr.tag = "GrpcUds" -> Ok(Some(GrpcUds(addr.payload)))
               [] addr.tag = "Mem" -> Err("can not derive rpc_addr for mem addr")

\* Faulty variant: ok_or in place of transpose, so that no address is an error.
server_rpc_addr_AbsentIsError(self) ==
    IF self.rpc_client.store_addr = None
    THEN Err("no rpc addr")
    ELSE LET addr == self.rpc_client.store_addr.val
         IN  CASE addr.tag = "GrpcHttp2" -> Ok(Some(GrpcHttp2(addr.payload)))
               [] addr.tag = "GrpcUds" -> Ok(Some(GrpcUds(addr.payload)))
               [] addr.tag = "Mem" -> Err("can not derive rpc_addr for mem addr")

\* Config::server_rpc_addr: Option::map over the variants, then transpose.
server_rpc_addr(self) ==
    IF self.rpc_client.store_addr = None
    THEN Ok(None)
    ELSE LET addr == self.rpc_client.store_addr.val
         IN  CASE addr.tag = "GrpcHttp2" -> Ok(Some(GrpcHttp2(addr.payload)))
               [] addr.tag = "GrpcUds" -> Ok(Some(GrpcUds(addr.payload)))
               [] addr.tag = "Mem" -> Err("can not derive rpc_addr for mem addr")

(***************************************************************************)
(* Config as a Source.                                                     *)
(***************************************************************************)
\* #[derive(Clone)]: a copy of every field.
Clone(self) ==
    [path |-> self.path, rpc_client |-> self.rpc_client, metrics |-> self.metrics]

\* Faulty variant: the nested maps are merged into the top level.
Collect_Flattened(self) ==
    LET path == to_str(self.path)
    IN  IF path = None
        THEN Err("No path set. Path is required.")
        ELSE LET rc == RpcClientCollect(self.rpc_client).val
                 mc == MetricsCollect(self.metrics).val
             IN  Ok([k \in {"path"} \cup DOMAIN rc \cup DOMAIN mc |->
                        IF k = "path" THEN Str(path.val)
                        ELSE IF k \in DOMAIN rc THEN rc[k] ELSE mc[k]])

\* Faulty variant: to_string_lossy in place of to_str, which never fails.
Collect_LossyPath(self) ==
    LET path == [i \in 1..Len(self.path) |->
                    IF self.path[i] = "FF" THEN "EFBFBD" ELSE self.path[i]]
        map1 == insert_into_config_map(EmptyMap, "path", Str(path))
        map2 == insert_into_config_map(map1, "rpc_client",
                                       Tbl(RpcClientCollect(self.rpc_client).val))
    IN  Ok(insert_into_config_map(map2, "metrics",
                                  Tbl(MetricsCollect(self.metrics).val)))

\* Faulty variant: the two nested maps are inserted under each other's key.
Collect_NestedSwapped(self) ==
    LET path == to_str(self.path)
    IN  IF path = None
        THEN Err("No path set. Path is required.")
        ELSE LET map1 == insert_into_config_map(EmptyMap, "path", Str(path.val))
                 map2 == insert_into_config_map(map1, "rpc_client",
                                                Tbl(MetricsCollect(self.metrics).val))
             IN  Ok(insert_into_config_map(map2, "metrics",
                                           Tbl(RpcClientCollect(self.rpc_client).val)))

\* Faulty variant: the path is inserted only when it is not empty.
Collect_EmptyPathOmitted(self) ==
    LET path == to_str(self.path)
    IN  IF path = None
        THEN Err("No path set. Path is required.")
        ELSE LET map1 == IF path.val = <<>>
                         THEN EmptyMap
                         ELSE insert_into_config_map(EmptyMap, "path", Str(path.val))
                 map2 == insert_into_config_map(map1, "rpc_client",
                                                Tbl(RpcClientCollect(self.rpc_client).val))
             IN  Ok(insert_into_config_map(map2, "metrics",
                                           Tbl(MetricsCollect(self.metrics).val)))

\* <Config as Source>::collect
Collect(self) ==
    LET path == to_str(self.path)
    IN  IF path = None
        THEN Err("No path set. Path is required.")
        ELSE LET map1 == insert_into_config_map(EmptyMap, "path", Str(path.val))
                 rc == RpcClientCollect(self.rpc_client)
             IN  IF rc.tag = "Err"
                 THEN rc
                 ELSE LET map2 == insert_into_config_map(map1, "rpc_client",
                                                         Tbl(rc.val))
                          mc == MetricsCollect(self.metrics)
                      IN  IF mc.tag = "Err"
                          THEN mc
                          ELSE Ok(insert_into_config_map(map2, "metrics",
                                                         Tbl(mc.val)))

(***************************************************************************)
(* Deserialization of a merged map into the typed configuration.           *)
(***************************************************************************)
\* An integer field read back from its text.
ParseCount(s) ==
    LET ns == {n \in 0..9 : <<ToString(n)>> = s}
    IN  IF ns = {} THEN Err("invalid digit") ELSE Ok(CHOOSE n \in ns : TRUE)

RpcClientDeserialize(t) ==
    LET addr == IF "store_addr" \in DOMAIN t
                THEN AddrFromStr(t["store_addr"].str)
                ELSE Unset
        chan == IF "channels" \in DOMAIN t
                THEN ParseCount(t["channels"].str)
                ELSE Unset
    IN  IF addr.tag = "Err"
        THEN addr
        ELSE IF chan.tag = "Err"
             THEN chan
             ELSE Ok([store_addr |-> IF addr = Unset THEN None ELSE Some(addr.val),
                      channels |-> IF chan = Unset THEN None ELSE Some(chan.val)])

MetricsDeserialize(t) ==
    IF "tracing" \notin DOMAIN t
    THEN Err("missing field tracing")
    ELSE IF t["tracing"].str = <<"true">>
         THEN Ok([tracing |-> TRUE])
         ELSE IF t["tracing"].str = <<"false">>
              THEN Ok([tracing |-> FALSE])
              ELSE Err("invalid type")

\* #[derive(Deserialize)] of Config: the three fields by name.
DeserializeConfig(m) ==
    IF ~({"path", "rpc_client", "metrics"} \subseteq DOMAIN m)
    THEN Err("missing field")
    ELSE IF \/ m["path"].kind # "String"
            \/ m["rpc_client"].kind # "Table"
            \/ m["metrics"].kind # "Table"
         THEN Err("invalid type")
         ELSE LET rc == RpcClientDeserialize(m["rpc_client"].tbl)
                  mc == MetricsDeserialize(m["metrics"].tbl)
              IN  IF rc.tag = "Err"
                  THEN rc
                  ELSE IF mc.tag = "Err"
                       THEN mc
                       ELSE Ok([path |-> m["path"].str,
                                rpc_client |-> rc.val,
                                metrics |-> mc.val])

(***************************************************************************)
(* The layered builder: sources are collected in registration order and    *)
(* each key of a later source replaces the same key of the earlier ones;   *)
(* tables are merged key by key.                                           *)
(***************************************************************************)
RECURSIVE MergeMap(_, _)
MergeMap(base, inc) ==
    [k \in DOMAIN base \cup DOMAIN inc |->
        IF k \notin DOMAIN inc
        THEN base[k]
        ELSE IF k \in DOMAIN base /\ base[k].kind = "Table" /\ inc[k].kind = "Table"
             THEN Tbl(MergeMap(base[k].tbl, inc[k].tbl))
             ELSE inc[k]]

RECURSIVE CollectAll(_, _)
CollectAll(sources, cache) ==
    IF sources = <<>>
    THEN Ok(cache)
    ELSE LET c == Collect(Head(sources))
         IN  IF c.tag = "Err"
             THEN c
             ELSE CollectAll(Tail(sources), MergeMap(cache, c.val))

\* builder().add_source(..)...build().try_deserialize()
Build(sources) ==
    LET m == CollectAll(sources, EmptyMap)
    IN  IF m.tag = "Err" THEN m ELSE DeserializeConfig(m.val)

(***************************************************************************)
(* The program state.  A Config is owned either by the caller (cfgRef) or  *)
(* by a boxed source registered with the builder (boxRef); each owner has  *)
(* its own allocation in heap, and 0 is the reference of no object.        *)
(*   made      how the caller's Config was constructed, with the arguments *)
(*   derived   the result of the last server_rpc_addr() on it              *)
(*   collected the result of the last collect() on it                      *)
(*   snapshot  what the original collected when the boxed copy was made    *)
(*   ret       the last operation and what it returned                     *)
(***************************************************************************)
Cells == {1, 2}

Live(r) == r # 0 /\ heap[r] # Free

\* The allocator hands out the lowest free cell.
Alloc(h) == CHOOSE c \in Cells : h[c] = Free /\ \A d \in Cells : h[d] = Free => c <= d

Init ==
    /\ heap = [c \in Cells |-> Free]
    /\ cfgRef = 0
    /\ boxRef = 0
    /\ made = [by |-> "none"]
    /\ derived = Unset
    /\ collected = Unset
    /\ snapshot = Unset
    /\ ret = [op |-> "init"]

\* The caller binds a newly constructed Config.
Place(c, how) ==
    /\ cfgRef = 0
    /\ \E f \in Cells : heap[f] = Free
    /\ heap' = [heap EXCEPT ![Alloc(heap)] = c]
    /\ cfgRef' = Alloc(heap)
    /\ made' = how
    /\ derived' = Unset
    /\ collected' = Unset
    /\ ret' = [op |-> how.by]
    /\ UNCHANGED <<boxRef, snapshot>>

NewWithRpc ==
    \E path \in PathBufs, addr \in StoreClientAddrs :
        Place(new_with_rpc(path, addr),
              [by |-> "new_with_rpc", path |-> path, addr |-> addr])

NewGrpc ==
    \E path \in PathBufs :
        /\ new_grpc(path) # None
        /\ Place(new_grpc(path).val, [by |-> "new_grpc", path |-> path])

\* A Config written as a struct literal: the three fields are public.
Literal ==
    \E c \in Configs : Place(c, [by |-> "literal"])

\* Faulty variant: the address is taken out of the Config (Option::take)
\* instead of borrowed (Option::as_ref).
ServerRpcAddr_Take ==
    /\ Live(cfgRef)
    /\ derived' = server_rpc_addr(heap[cfgRef])
    /\ heap' = [heap EXCEPT ![cfgRef].rpc_client.store_addr = None]
    /\ ret' = [op |-> "server_rpc_addr", first |-> (derived = Unset)]
    /\ UNCHANGED <<cfgRef, boxRef, made, collected, snapshot>>

ServerRpcAddr ==
    /\ Live(cfgRef)
    /\ derived' = server_rpc_addr(heap[cfgRef])
    /\ ret' = [op |-> "server_rpc_addr", first |-> (derived = Unset)]
    /\ UNCHANGED <<heap, cfgRef, boxRef, made, collected, snapshot>>

CollectCall ==
    /\ Live(cfgRef)
    /\ collected' = Collect(heap[cfgRef])
    /\ ret' = [op |-> "collect", first |-> (collected = Unset)]
    /\ UNCHANGED <<heap, cfgRef, boxRef, made, derived, snapshot>>

\* Faulty variant: the box refers to the caller's allocation instead of
\* owning a copy.
CloneIntoBox_Shared ==
    /\ Live(cfgRef)
    /\ boxRef = 0
    /\ boxRef' = cfgRef
    /\ snapshot' = Collect(heap[cfgRef])
    /\ ret' = [op |-> "clone_into_box"]
    /\ UNCHANGED <<heap, cfgRef, made, derived, collected>>

\* <Config as Source>::clone_into_box: Box::new(self.clone())
CloneIntoBox ==
    /\ Live(cfgRef)
    /\ boxRef = 0
    /\ \E f \in Cells : heap[f] = Free
    /\ heap' = [heap EXCEPT ![Alloc(heap)] = Clone(heap[cfgRef])]
    /\ boxRef' = Alloc(heap)
    /\ snapshot' = Collect(heap[cfgRef])
    /\ ret' = [op |-> "clone_into_box"]
    /\ UNCHANGED <<cfgRef, made, derived, collected>>

\* The builder collects its boxed source.
BoxCollect ==
    /\ Live(boxRef)
    /\ ret' = [op |-> "box_collect", out |-> Collect(heap[boxRef])]
    /\ UNCHANGED <<heap, cfgRef, boxRef, made, derived, collected, snapshot>>

\* The caller's Config goes out of scope.
Drop ==
    /\ cfgRef # 0
    /\ heap' = [heap EXCEPT ![cfgRef] = Free]
    /\ cfgRef' = 0
    /\ made' = [by |-> "none"]
    /\ derived' = Unset
    /\ collected' = Unset
    /\ ret' = [op |-> "drop"]
    /\ UNCHANGED <<boxRef, snapshot>>

\* The builder releases its boxed source.
DropBox ==
    /\ boxRef # 0
    /\ heap' = [heap EXCEPT ![boxRef] = Free]
    /\ boxRef' = 0
    /\ snapshot' = Unset
    /\ ret' = [op |-> "drop_box"]
    /\ UNCHANGED <<cfgRef, made, derived, collected>>

\* builder().add_source(expect.clone()).build().try_deserialize()
BuildFromStruct ==
    /\ Live(cfgRef)
    /\ ret' = [op |-> "build",
               source |-> heap[cfgRef],
               out |-> Build(<<Clone(heap[cfgRef])>>)]
    /\ UNCHANGED <<heap, cfgRef, boxRef, made, derived, collected, snapshot>>

\* The boxed source is the defaults layer, registered first; the caller's
\* Config is the override layer, registered second.
BuildLayered ==
    /\ Live(cfgRef)
    /\ Live(boxRef)
    /\ ret' = [op |-> "build_layered",
               defaults |-> heap[boxRef],
               override |-> heap[cfgRef],
               merged |-> CollectAll(<<heap[boxRef], Clone(heap[cfgRef])>>, EmptyMap),
               out |-> Build(<<heap[boxRef], Clone(heap[cfgRef])>>)]
    /\ UNCHANGED <<heap, cfgRef, boxRef, made, derived, collected, snapshot>>

Next ==
    \/ NewWithRpc
    \/ NewGrpc
    \/ Literal
    \/ ServerRpcAddr
    \/ CollectCall
    \/ CloneIntoBox
    \/ BoxCollect
    \/ Drop
    \/ DropBox
    \/ BuildFromStruct
    \/ BuildLayered

Spec == Init /\ [][Next]_vars

(***************************************************************************)
(* Properties.                                                             *)
(***************************************************************************)
\* The caller's Config, where there is one.
Cfg == heap[cfgRef]

IsText(p) == to_str(p) # None

IsMemAddr(sa) == sa # None /\ sa.val.tag = "Mem"

IsNetworkAddr(sa) == sa # None /\ sa.val.tag \in {"GrpcHttp2", "GrpcUds"}

\* C1: for a Config whose store_addr is the in-process (Mem) variant,
\* server_rpc_addr() returns an error, never Ok(None) nor Ok(Some(_)),
\* whatever the path, the metrics and the other rpc_client fields.
Thm_C1_MemAddrIsError ==
    (Live(cfgRef) /\ derived # Unset /\ IsMemAddr(Cfg.rpc_client.store_addr))
        => derived.tag = "Err"

Wit_C1_MemAddrIsError ==
    /\ Live(cfgRef)
    /\ IsMemAddr(Cfg.rpc_client.store_addr)
    /\ Cfg.metrics # MetricsDefault
    /\ Cfg.rpc_client.channels # None
    /\ derived.tag = "Err"

\* C2: for a Config whose store_addr is a network variant (GrpcHttp2 or
\* GrpcUds), server_rpc_addr() returns Ok(Some(a)) with a the same variant and
\* payload as the configured address; a Config made by new_grpc(path) yields
\* Ok(Some(grpc://0.0.0.0:4402)) for every path.
Thm_C2_NetworkAddrIsIdentity ==
    (Live(cfgRef) /\ derived # Unset)
        => /\ IsNetworkAddr(Cfg.rpc_client.store_addr)
                => derived = Ok(Some(Cfg.rpc_client.store_addr.val))
           /\ made.by = "new_grpc"
                => derived = Ok(Some(GrpcHttp2("0.0.0.0:4402")))

Wit_C2_NewGrpcDerived ==
    /\ made.by = "new_grpc"
    /\ derived = Ok(Some(GrpcHttp2("0.0.0.0:4402")))

\* C3: for a Config whose store_addr is None, server_rpc_addr() returns
\* Ok(None): no error and no default address.
Thm_C3_AbsentAddrIsNone ==
    (Live(cfgRef) /\ derived # Unset /\ Cfg.rpc_client.store_addr = None)
        => derived = Ok(None)

Wit_C3_AbsentAddrIsNone ==
    /\ Live(cfgRef)
    /\ Cfg.rpc_client.store_addr = None
    /\ derived = Ok(None)

\* C4: for a Config whose path is text, collect() succeeds with a map whose
\* keys are exactly path, rpc_client and metrics: the path's text, the map of
\* rpc_client.collect() and the map of metrics.collect(), nested.
Thm_C4_CollectThreeKeys ==
    (Live(cfgRef) /\ collected # Unset /\ IsText(Cfg.path))
        => /\ collected.tag = "Ok"
           /\ DOMAIN collected.val = {"path", "rpc_client", "metrics"}
           /\ collected.val["path"] = Str(to_str(Cfg.path).val)
           /\ collected.val["rpc_client"] = Tbl(RpcClientCollect(Cfg.rpc_client).val)
           /\ collected.val["metrics"] = Tbl(MetricsCollect(Cfg.metrics).val)

Wit_C4_CollectThreeKeys ==
    /\ Live(cfgRef)
    /\ IsText(Cfg.path)
    /\ Len(Cfg.path) > 0
    /\ Cfg.rpc_client.store_addr # None
    /\ collected.tag = "Ok"
    /\ DOMAIN collected.val["rpc_client"].tbl = {"store_addr", "channels"}

\* C5: collect() returns an error exactly when the path is not text, and a
\* failed collect() returns the error alone, no map.
Thm_C5_CollectFailsOnlyOnPath ==
    (Live(cfgRef) /\ collected # Unset)
        => /\ collected.tag \in {"Ok", "Err"}
           /\ collected.tag = "Err" <=> ~IsText(Cfg.path)
           /\ collected.tag = "Err"
                => collected = Err("No path set. Path is required.")

Wit_C5_CollectFailed ==
    /\ Live(cfgRef)
    /\ ~IsText(Cfg.path)
    /\ collected.tag = "Err"

Layered(dv, ov) == IF ov # None THEN ov ELSE dv

Expected(d, o) ==
    [path |-> o.path,
     rpc_client |-> [store_addr |-> Layered(d.rpc_client.store_addr,
                                            o.rpc_client.store_addr),
                     channels |-> Layered(d.rpc_client.channels,
                                          o.rpc_client.channels)],
     metrics |-> o.metrics]

\* The two layers can be built: both collect, and the address reads back.
Buildable(d, o) ==
    /\ IsText(d.path)
    /\ IsText(o.path)
    /\ ~IsMemAddr(Layered(d.rpc_client.store_addr, o.rpc_client.store_addr))

\* Key by key, the later map wins and the earlier map fills what it lacks.
Precedence(earlier, later, merged) ==
    /\ DOMAIN merged = DOMAIN earlier \cup DOMAIN later
    /\ \A k \in DOMAIN merged :
        IF k \notin DOMAIN later
        THEN merged[k] = earlier[k]
        ELSE IF later[k].kind = "Table" /\ k \in DOMAIN earlier
             THEN /\ merged[k].kind = "Table"
                  /\ DOMAIN merged[k].tbl
                        = DOMAIN earlier[k].tbl \cup DOMAIN later[k].tbl
                  /\ \A j \in DOMAIN merged[k].tbl :
                        merged[k].tbl[j] = IF j \in DOMAIN later[k].tbl
                                           THEN later[k].tbl[j]
                                           ELSE earlier[k].tbl[j]
             ELSE merged[k] = later[k]

Thm_C8_NewWithRpc ==
    /\ \A p \in PathBufs, a \in StoreClientAddrs : new_with_rpc(p, a) \in Configs
    /\ (made.by = "new_with_rpc" /\ Live(cfgRef))
        => /\ Cfg.path = made.path
           /\ Cfg.rpc_client.store_addr = Some(made.addr)
           /\ Cfg.rpc_client.channels = RpcClientDefault.channels
           /\ DOMAIN Cfg.rpc_client = DOMAIN RpcClientDefault
           /\ Cfg.metrics = MetricsDefault

Wit_C8_NewWithMemAddr ==
    /\ made.by = "new_with_rpc"
    /\ Live(cfgRef)
    /\ made.addr.tag = "Mem"
    /\ ~IsText(made.path)
    /\ Cfg.rpc_client.store_addr = Some(made.addr)

ReadOnlyOps == {"server_rpc_addr", "collect", "clone_into_box"}

\* C9: a call of collect(), server_rpc_addr() or clone_into_box() leaves the
\* Config's three fields as they were, and a repeated collect() or
\* server_rpc_addr() returns what the call before it returned.
Thm_C9_ReadOnlyIdempotent ==
    [][ret'.op \in ReadOnlyOps
        => /\ cfgRef' = cfgRef
           /\ heap'[cfgRef] = heap[cfgRef]
           /\ (ret'.op = "server_rpc_addr" /\ derived # Unset)
                => derived' = derived
           /\ (ret'.op = "collect" /\ collected # Unset)
                => collected' = collected]_vars

Wit_C9_RepeatedCalls ==
    /\ ret.op = "collect"
    /\ ~ret.first
    /\ derived # Unset
    /\ boxRef # 0
    /\ collected.tag = "Ok"

\* C10: the boxed copy owns an allocation of its own and collects what the
\* original collected when the copy was made, whatever is constructed or
\* dropped afterwards.
Thm_C10_BoxIndependent ==
    /\ boxRef # 0
        => /\ heap[boxRef] # Free
           /\ boxRef # cfgRef
           /\ Collect(heap[boxRef]) = snapshot
    /\ ret.op = "box_collect" => ret.out = snapshot

Wit_C10_BoxOutlivesOriginal ==
    /\ ret.op = "box_collect"
    /\ Live(cfgRef)
    /\ heap[cfgRef] # heap[boxRef]
    /\ ret.out.tag = "Ok"
    /\ ret.out = snapshot

====
